---- MODULE Spec2Model ----
(***************************************************************************)
(* Ping and Ding (site monitor), src/ping-and-ding.js lines 1-467.         *)
(*                                                                         *)
(* One run of the script: every configured target is probed (poke), the    *)
(* result is logged (writeData, writeWarn), RESPONSE_TIME failures are     *)
(* retried, and failures are handed to the notification gate (ding), which *)
(* posts to the notifier unless the target's cooldown suppresses it.       *)
(*                                                                         *)
(* JavaScript values: an optional number (null or a number) is a sequence  *)
(* of length 0 or 1; an ISO-8601 string of the instant t (ms since epoch)  *)
(* is <<"iso", t>>; a missing key of an object is <<>>.                    *)
(***************************************************************************)
EXTENDS Integers, Sequences, FiniteSets, TLC

VARIABLES
    CONFIG,                 \* validated config with defaults applied
    lastNotificationTime,   \* STATE.lastNotificationTime: name -> stored value
    stateFile,              \* contents of state.json (lastNotificationTime)
    now,                    \* wall clock, ms since epoch
    run,                    \* number of the run of the script, from 1
    pc,                     \* position of the main script
    ti,                     \* index of the current target in CONFIG.targets
    result,                 \* `result` of the main loop (<<>> before a probe)
    responseTimeFailures,   \* counter of the retry phase
    i,                      \* retry loop counter
    pokes,                  \* name -> Results returned by ping, in order
    probeNets,              \* name -> what the network did with each probe
    dataFile,               \* name -> rows appended to the target's CSV
    dataHeaders,            \* name -> header lines in the target's CSV
    warnLog,                \* records appended to the warn log
    errorLog,               \* ERROR entries logged by LOGGER
    dingCalls,              \* calls of ding(target, result), with the instant
                            \* and the target's stored value at the call
    posts,                  \* notification POSTs attempted and their instant
    events,                 \* what the main loop did, in order: requests,
                            \* file writes, notification requests, POSTs
    pokeIn,                 \* input of a single call of a function
    pokeOut,                \* what that call returned
    configFile,             \* what readJSON(CONFIG_FILEPATH) returns
    exitCode,               \* exit code of the process (<<>> while it runs)
    objects,                \* the objects of CONFIG.targets, CONFIG.defaults
                            \* and DEFAULTS: id -> key -> number or reference
    parsed                  \* `objects` as parsed, before defaults are applied

vars == <<CONFIG, lastNotificationTime, stateFile, now, run, pc, ti, result,
          responseTimeFailures, i, pokes, probeNets, dataFile, dataHeaders,
          warnLog, errorLog, dingCalls, posts, events, pokeIn, pokeOut,
          configFile, exitCode, objects, parsed>>

runVars == <<CONFIG, lastNotificationTime, stateFile, now, run, pc, ti, result,
             responseTimeFailures, i, pokes, probeNets, dataFile, dataHeaders,
             warnLog, errorLog, dingCalls, posts, events, configFile,
             exitCode, objects, parsed>>

\* the input and the output of a single call, and what the start of the
\* script reads and sets
callVars == <<pokeIn, pokeOut, configFile, exitCode, objects, parsed>>

\* the files and logs the probes of a run append to
probeLogs == <<pokes, probeNets, dataFile, dataHeaders, warnLog>>

-----------------------------------------------------------------------------
(* Bounds and input domains *)

\* largest responseTimeRetries of a target
MaxRetries == 2

\* largest number of consecutive runs of the script
MaxRuns == 2

\* largest length of a response body
MaxBody == 4

\* names of the configured targets, in config order (unique)
Names == <<"a", "b">>

NameSet == {Names[n] : n \in 1..Len(Names)}

\* built-in defaults of a target (DEFAULTS.target)
DefaultStatus == 200
DefaultResponseTime == 1000
DefaultTimeout == 5000

\* status codes a server answers with
Statuses == {DefaultStatus, 500}

HeaderKeys == {"h1"}

\* expect.headers: header -> expected value, "" accepts any value
ExpectHeaderSets == UNION {[D -> {"", "v1"}] : D \in SUBSET HeaderKeys}

\* headers of a response
ResponseHeaderSets == UNION {[D -> {"v1", "v2"}] : D \in SUBSET HeaderKeys}

\* delay (ms) of the response headers after the request, and of the body
\* after the headers
Delays == {0, 500, 1500, DefaultTimeout, 6000}
BodyDelays == {0, 4500}

\* notifierCooldownMins of a target: none, ten minutes, and more minutes
\* than have passed since the epoch at the start of the run
Cooldowns == {0, 10, 30}

\* duration (ms) of a notification attempt
NotifyDelays == {200}

\* the clock at the start of the run
StartTime == 20 * 60 * 1000

\* time (ms) from the end of a run to the start of the next: cron every
\* minute, or every ten minutes
RunGaps == {60 * 1000, 10 * 60 * 1000}

-----------------------------------------------------------------------------
(* JavaScript helpers *)

\* x || d for an optional number x: null, undefined, NaN and 0 are falsy
OrElse(x, d) == IF x = <<>> \/ x[1] = 0 THEN d ELSE x[1]

\* Date.prototype.toISOString of the instant t
ToISOString(t) == <<"iso", t>>

\* Date.parse: the instant of an ISO string, NaN (<<>>) for anything else
DateParse(v) == IF Len(v) = 2 /\ v[1] = "iso" THEN <<v[2]>> ELSE <<>>

-----------------------------------------------------------------------------
(* poke: one request and its checks *)

\* what the network does with one request
NeverNets ==
    {[kind |-> "never", at |-> 0, status |-> 0, headers |-> <<>>,
      body |-> "text", bodyAt |-> 0, timerFirst |-> TRUE]}

ErrorNets ==
    {[kind |-> "error", at |-> d, status |-> 0, headers |-> <<>>,
      body |-> "text", bodyAt |-> 0, timerFirst |-> tf] :
        d \in Delays, tf \in BOOLEAN}

ResponseNets ==
    [kind : {"response"}, at : Delays, status : Statuses,
     headers : ResponseHeaderSets, body : {"text", "error"},
     bodyAt : BodyDelays, timerFirst : BOOLEAN]

Nets == NeverNets \cup ErrorNets \cup ResponseNets

FailOverwrite(r, type) == [r EXCEPT !.failure = type]

\* failed || fail({ type, ... }): only the first failure is recorded
Fail(r, type) == IF r.failure # "NONE" THEN r ELSE [r EXCEPT !.failure = type]

\* the abort timer fires before an event due `at` ms after the request
TimerFiresBefore(timeout, at, timerFirst) ==
    at > timeout \/ (at = timeout /\ timerFirst)

FetchAbortedLate(target, net) ==
    net.kind = "never"

\* await fetch(url, { ...init, signal }) rejects with AbortError
FetchAborted(target, net) ==
    \/ net.kind = "never"
    \/ TimerFiresBefore(target.timeout, net.at, net.timerFirst)

\* await response.text() rejects with AbortError
BodyAborted(target, net) ==
    TimerFiresBefore(target.timeout, net.at + net.bodyAt, net.timerFirst)

CatchNeverFails(r, errName) == r

CatchAllTimeout(r, errName) == Fail(r, "TIMEOUT")

\* the catch block of poke
Catch(r, errName) == IF errName = "AbortError" THEN Fail(r, "TIMEOUT") ELSE r

HeaderOkExact(headers, key, val) ==
    key \in DOMAIN headers /\ headers[key] = val

\* response.headers.has(key) && (val === '' || response.headers.get(key) === val)
HeaderOk(headers, key, val) ==
    key \in DOMAIN headers /\ (val = "" \/ headers[key] = val)

\* Object.entries(expect.headers).forEach(...)
CheckHeaders(r, expectHeaders, headers) ==
    IF \E key \in DOMAIN expectHeaders :
           ~HeaderOk(headers, key, expectHeaders[key])
    THEN Fail(r, "HEADER")
    ELSE r

CheckResponseTime(r, expect) ==
    IF r.responseTime[1] > expect.responseTime
    THEN Fail(r, "RESPONSE_TIME")
    ELSE r

\* poke({ name, url, init, expect, timeout, ... }) started at instant t
Poke(target, net, t) ==
    LET r0 == [name |-> target.name, timestamp |-> ToISOString(t),
               status |-> <<>>, responseTime |-> <<>>, failure |-> "NONE"]
    IN  IF FetchAborted(target, net) THEN Catch(r0, "AbortError")
        ELSE IF net.kind = "error" THEN Catch(r0, "FetchError")
        ELSE
          LET r1 == [r0 EXCEPT !.status = <<net.status>>,
                               !.responseTime = <<net.at>>]
          IN  IF net.status # target.expect.status /\ BodyAborted(target, net)
              THEN Catch(r1, "AbortError")
              ELSE IF net.status # target.expect.status /\ net.body = "error"
              THEN Catch(r1, "FetchError")
              ELSE
                LET r2 == IF net.status # target.expect.status
                          THEN Fail(r1, "STATUS") ELSE r1
                    r3 == CheckHeaders(r2, target.expect.headers, net.headers)
                IN  CheckResponseTime(r3, target.expect)

\* the ERROR entries poke logs: logger.error(err.message) in the catch block
PokeErrors(target, net) ==
    IF FetchAborted(target, net) THEN <<>>
    ELSE IF net.kind = "error"
    THEN <<[source |-> "poke", name |-> target.name]>>
    ELSE IF net.status # target.expect.status /\ BodyAborted(target, net)
    THEN <<>>
    ELSE IF net.status # target.expect.status /\ net.body = "error"
    THEN <<[source |-> "poke", name |-> target.name]>>
    ELSE <<>>

\* ms from the start of poke to its return
PokeDuration(target, net) ==
    IF FetchAborted(target, net) THEN target.timeout
    ELSE IF net.kind = "error" THEN net.at
    ELSE IF net.status = target.expect.status THEN net.at
    ELSE IF BodyAborted(target, net) THEN target.timeout
    ELSE net.at + net.bodyAt

-----------------------------------------------------------------------------
(* ding: the notification gate, and notify *)

\* JSON.stringify of `result.failure.type` in notifySlack throws a TypeError
\* before the request is made when the result has no failure
NotifySlackPosts(res) == res.failure # "NONE"

\* notifySlack throws: the TypeError, `Responded ...` for a non-2xx answer,
\* `Timeout after ...` for an abort, the error of fetch otherwise
NotifySlackThrows(res, outcome) == ~NotifySlackPosts(res) \/ outcome # "ok"

NotifyCatchesTimeoutOnly(outcome) == outcome = "timeout"

\* try { await notifySlack(...) } catch (err) { ... } in notify: every error
\* is caught and logged
NotifyCatches(outcome) == TRUE

notifyTrue(res, outcome) == "true"

\* notify({ result, notifier, logger }): awaits notifySlack, logs, catches
\* every error; the function has no return statement
notify(res, outcome) == "undefined"

\* if (success)
Truthy(v) == v \notin {"undefined", "null", "false"}

CooldownElapsedSeconds(elapsed, cooldown) == elapsed >= cooldown * 60

\* elapsed >= cooldown * 60 * 1000
CooldownElapsed(elapsed, cooldown) == elapsed >= cooldown * 60 * 1000

\* ding(target, result) called at instant t; the notification attempt, if
\* made, ends with `outcome` after `dur` ms.  The value is the new
\* STATE.lastNotificationTime, the POSTs attempted, the clock on return, the
\* ERROR entries logged and whether an error left ding uncaught.
ding(target, res, t, outcome, dur) ==
    LET quiet == [last |-> lastNotificationTime, posts |-> posts, now |-> t,
                  errors |-> <<>>, threw |-> FALSE]
    IN
    IF ~CONFIG.notifier
    THEN quiet
    ELSE
      LET prev == OrElse(DateParse(lastNotificationTime[target.name]), 0)
          elapsed == t - prev
          cooldown == OrElse(<<target.notifierCooldownMins>>, 0)
      IN  IF CooldownElapsed(elapsed, cooldown)
          THEN
            LET sent == NotifySlackPosts(res)
                out == IF sent THEN outcome ELSE "error"
                threw == NotifySlackThrows(res, out)
                caught == threw /\ NotifyCatches(out)
                success == notify(res, out)
                end == IF sent THEN t + dur ELSE t
            IN  [last |-> IF ~(threw /\ ~caught) /\ Truthy(success)
                           THEN [lastNotificationTime EXCEPT
                                   ![target.name] = ToISOString(end)]
                           ELSE lastNotificationTime,
                 posts |-> IF sent
                           THEN Append(posts, [name |-> target.name,
                                               result |-> res,
                                               outcome |-> outcome,
                                               at |-> t])
                           ELSE posts,
                 now |-> end,
                 errors |-> IF caught
                            THEN <<[source |-> "notify", name |-> target.name],
                                   [source |-> "notify", name |-> target.name]>>
                            ELSE <<>>,
                 threw |-> threw /\ ~caught]
          ELSE quiet

\* outcomes of a notification attempt: 2xx, non-2xx, notifier timeout,
\* network error
NotifyOutcomes == {"ok", "non2xx", "timeout", "error"}

-----------------------------------------------------------------------------
(* logging *)

\* the line writeData appends: timestamp, responseTime || -1, status || 0
DataRow(res) ==
    <<res.timestamp, OrElse(res.responseTime, -1), OrElse(res.status, 0)>>

\* exists(filepath) for the CSV of a target
DataFileExists(name) == dataHeaders[name] > 0 \/ dataFile[name] # <<>>

WriteHeaderAlways(name) == TRUE

\* if (!(await exists(filepath))): the header line is written first
WriteHeader(name) == ~DataFileExists(name)

HasFailureAlways(res) == TRUE

\* 'failure' in result
HasFailure(res) == res.failure # "NONE"

-----------------------------------------------------------------------------
(* the main loop *)

RetryCondNever(res, target) == FALSE

RetryCondAnyFailure(res, target) ==
    target.responseTimeRetries # 0

\* result.failure.type === 'RESPONSE_TIME' && target.responseTimeRetries
RetryCond(res, target) ==
    res.failure = "RESPONSE_TIME" /\ target.responseTimeRetries # 0

ExhaustedAfterBreak(target, failures) == target.responseTimeRetries # 0

ExhaustedAtLeast(target, failures) ==
    target.responseTimeRetries # 0 /\ failures >= target.responseTimeRetries

ExhaustedNever(target, failures) ==
    target.responseTimeRetries # 0 /\ failures > target.responseTimeRetries + 1

\* target.responseTimeRetries && responseTimeFailures > target.responseTimeRetries
Exhausted(target, failures) ==
    target.responseTimeRetries # 0 /\ failures > target.responseTimeRetries

\* a target of a run: status 200 and a header h1 of any value expected
\* within the built-in response time and timeout; the retry budget and the
\* cooldown are given by defaults.target
RunTarget(name, retries, cooldown) ==
    [name |-> name,
     expect |-> [status |-> DefaultStatus,
                 headers |-> [key \in HeaderKeys |-> ""],
                 responseTime |-> DefaultResponseTime],
     responseTimeRetries |-> retries,
     timeout |-> DefaultTimeout,
     notifierCooldownMins |-> cooldown]

\* what the network does in a run: as Nets, with fewer delays and headers
RunNets ==
    {n \in Nets :
        /\ n.timerFirst
        /\ n.kind = "error" => n.at = 500
        /\ n.kind = "response" =>
              /\ n.headers \in {<<>>, [key \in HeaderKeys |-> "v1"]}
              /\ n.headers = <<>> => n.status = DefaultStatus /\ n.at = 500
              /\ n.status = DefaultStatus =>
                    n.at \in {0, 500, 1500} /\ n.body = "text" /\ n.bodyAt = 0
              /\ n.status # DefaultStatus => n.at = 500}

\* stored last-notification values of state.json at the start of the run:
\* none, 5 minutes ago, 15 minutes ago, not a date
StoredTimes ==
    {<<>>, ToISOString(StartTime - 5 * 60 * 1000),
     ToISOString(StartTime - 15 * 60 * 1000), <<"garbage">>}

\* the contents of state.json at the start of the run
StoredFiles ==
    {f \in [NameSet -> StoredTimes] :
        f[Names[2]] \in {<<>>, ToISOString(StartTime - 5 * 60 * 1000)}}

NoResult == <<>>

Target == CONFIG.targets[ti]

\* the state after the config and state.json are loaded (lines 378-418);
\* a target with an entry in state.json was monitored before, and its CSV
\* of this month exists
Loaded(config, file) ==
    /\ CONFIG = config
    /\ stateFile = file
    /\ lastNotificationTime = stateFile
    /\ now = StartTime
    /\ run = 1
    /\ ti = 1
    /\ result = NoResult
    /\ responseTimeFailures = 0
    /\ i = 0
    /\ pokes = [n \in NameSet |-> <<>>]
    /\ probeNets = [n \in NameSet |-> <<>>]
    /\ dataFile = [n \in NameSet |-> <<>>]
    /\ dataHeaders = [n \in NameSet |-> IF file[n] = <<>> THEN 0 ELSE 1]
    /\ warnLog = <<>>
    /\ errorLog = <<>>
    /\ dingCalls = <<>>
    /\ posts = <<>>
    /\ events = <<>>
    /\ pokeIn = <<>>
    /\ pokeOut = <<>>
    /\ configFile = <<>>
    /\ exitCode = <<>>
    /\ objects = <<>>
    /\ parsed = <<>>

Init ==
    /\ \E n \in 1..Len(Names), retries \in 0..MaxRetries,
          cooldown \in Cooldowns, notifier \in BOOLEAN, file \in StoredFiles :
         Loaded([targets |-> [k \in 1..n |->
                                 RunTarget(Names[k], retries, cooldown)],
                 notifier |-> notifier], file)
    /\ pc = "ping"

ProbeNoWarn(res, net) ==
    /\ result' = res
    /\ pokes' = [pokes EXCEPT ![Target.name] = Append(@, res)]
    /\ probeNets' = [probeNets EXCEPT ![Target.name] = Append(@, net)]
    /\ dataHeaders' = [dataHeaders EXCEPT ![Target.name] =
                          IF WriteHeader(Target.name) THEN @ + 1 ELSE @]
    /\ dataFile' = [dataFile EXCEPT ![Target.name] = Append(@, DataRow(res))]
    /\ warnLog' = warnLog

\* result = await ping(target); await writeData(target.name, result);
\* writeWarn if it failed
Probe(res, net) ==
    /\ result' = res
    /\ pokes' = [pokes EXCEPT ![Target.name] = Append(@, res)]
    /\ probeNets' = [probeNets EXCEPT ![Target.name] = Append(@, net)]
    /\ dataHeaders' = [dataHeaders EXCEPT ![Target.name] =
                          IF WriteHeader(Target.name) THEN @ + 1 ELSE @]
    /\ dataFile' = [dataFile EXCEPT ![Target.name] = Append(@, DataRow(res))]
    /\ warnLog' = IF HasFailure(res) THEN Append(warnLog, res) ELSE warnLog

\* what a probe of the current target adds to `events`: the request, the
\* data row and, for a failure, the warn record
ProbeEvents(res) ==
    LET k == Len(pokes[Target.name]) + 1
        e(type) == [type |-> type, name |-> Target.name, probe |-> k]
    IN  <<e("poke"), e("data")>> \o
        (IF HasFailure(res) THEN <<e("warn")>> ELSE <<>>)

\* what ding adds to `events` after `done`: the request for a notification
\* about the latest Result and, if made, the POST
DingEvents(done, sent) ==
    LET k == Len(pokes[Target.name]) + (IF done = <<>> THEN 0 ELSE 1)
        e(type) == [type |-> type, name |-> Target.name, probe |-> k]
    IN  <<e("ding")>> \o (IF sent THEN <<e("post")>> ELSE <<>>)

EventOrderDingFirst(done, dinged) == dinged \o done

\* ping, writeData and writeWarn are awaited before ding is called
EventOrder(done, dinged) == done \o dinged

\* await ding(target, result) at instant t, after `logged` was logged and
\* `done` was done; an error that leaves ding uncaught ends the script,
\* otherwise it goes on at `next`
Ding(res, t, outcome, dur, logged, done, next) ==
    LET d == ding(Target, res, t, outcome, dur)
    IN  /\ dingCalls' = Append(dingCalls,
                               [name |-> Target.name, result |-> res, at |-> t,
                                stored |-> lastNotificationTime[Target.name]])
        /\ lastNotificationTime' = d.last
        /\ posts' = d.posts
        /\ now' = d.now
        /\ errorLog' = errorLog \o logged \o d.errors
        /\ events' = events \o
                      EventOrder(done, DingEvents(done, d.posts # posts))
        /\ pc' = IF d.threw THEN "crashed" ELSE next

NoDing(t, logged, done, next) ==
    /\ now' = t
    /\ errorLog' = errorLog \o logged
    /\ events' = events \o done
    /\ pc' = next
    /\ UNCHANGED <<dingCalls, lastNotificationTime, posts>>

\* lines 424-431, 458-460: the initial probe of a target, the network
\* behaving as one of `nets`
PingTargetOn(nets) ==
    /\ pc = "ping"
    /\ \E net \in nets, outcome \in NotifyOutcomes, dur \in NotifyDelays :
         LET res == Poke(Target, net, now)
             t == now + PokeDuration(Target, net)
             logged == PokeErrors(Target, net)
             done == ProbeEvents(res)
         IN  /\ Probe(res, net)
             /\ IF HasFailure(res)
                THEN IF RetryCond(res, Target)
                     THEN /\ responseTimeFailures' = 1
                          /\ i' = 0
                          /\ NoDing(t, logged, done, "retry")
                     ELSE /\ Ding(res, t, outcome, dur, logged, done, "flush")
                          /\ UNCHANGED <<responseTimeFailures, i>>
                ELSE /\ NoDing(t, logged, done, "flush")
                     /\ UNCHANGED <<responseTimeFailures, i>>
    /\ UNCHANGED <<CONFIG, stateFile, run, ti, callVars>>

PingTarget == PingTargetOn(RunNets)

RetryNextPcNoBreak(res, target) == "retry"

RetryNextPcAfterDing(res, target) ==
    IF HasFailure(res) THEN "retry" ELSE "afterloop"

\* where the retry loop goes after a probe: on, or out by `break`
RetryNextPc(res, target) ==
    IF HasFailure(res) /\ RetryCond(res, target) THEN "retry" ELSE "afterloop"

LoopCondInclusive(k, target) == k <= target.responseTimeRetries

\* i < target.responseTimeRetries
LoopCond(k, target) == k < target.responseTimeRetries

\* lines 435-452: one iteration of the retry loop
RetryPingOn(nets) ==
    /\ pc = "retry"
    /\ LoopCond(i, Target)
    /\ \E net \in nets, outcome \in NotifyOutcomes, dur \in NotifyDelays :
         LET res == Poke(Target, net, now)
             t == now + PokeDuration(Target, net)
             logged == PokeErrors(Target, net)
             done == ProbeEvents(res)
             next == RetryNextPc(res, Target)
         IN  /\ Probe(res, net)
             /\ i' = i + 1
             /\ IF HasFailure(res)
                THEN IF RetryCond(res, Target)
                     THEN /\ responseTimeFailures' = responseTimeFailures + 1
                          /\ NoDing(t, logged, done, next)
                     ELSE /\ Ding(res, t, outcome, dur, logged, done, next)
                          /\ UNCHANGED responseTimeFailures
                ELSE /\ NoDing(t, logged, done, next)
                     /\ UNCHANGED responseTimeFailures
    /\ UNCHANGED <<CONFIG, stateFile, run, ti, callVars>>

RetryPing == RetryPingOn(RunNets)

\* lines 454-456: after the retry loop
AfterRetries ==
    /\ \/ pc = "afterloop"
       \/ pc = "retry" /\ ~LoopCond(i, Target)
    /\ \E outcome \in NotifyOutcomes, dur \in NotifyDelays :
         IF Exhausted(Target, responseTimeFailures)
         THEN Ding(result, now, outcome, dur, <<>>, <<>>, "flush")
         ELSE NoDing(now, <<>>, <<>>, "flush")
    /\ UNCHANGED <<CONFIG, stateFile, run, ti, result, responseTimeFailures, i,
                   probeLogs, callVars>>

FlushLeavesLoop ==
    /\ pc = "flush"
    /\ ti' = ti
    /\ pc' = "cleanup"
    /\ UNCHANGED <<CONFIG, lastNotificationTime, stateFile, now, run, result,
                   responseTimeFailures, i, probeLogs, errorLog, dingCalls,
                   posts, events, callVars>>

\* lines 462-463: await LOGGER.flush(), then the next target or the end
Flush ==
    /\ pc = "flush"
    /\ IF ti < Len(CONFIG.targets)
       THEN ti' = ti + 1 /\ pc' = "ping"
       ELSE ti' = ti /\ pc' = "cleanup"
    /\ UNCHANGED <<CONFIG, lastNotificationTime, stateFile, now, run, result,
                   responseTimeFailures, i, probeLogs, errorLog, dingCalls,
                   posts, events, callVars>>

StateJSONConfigured(state) ==
    [n \in NameSet |->
        IF \E k \in 1..Len(CONFIG.targets) : CONFIG.targets[k].name = n
        THEN state[n] ELSE <<>>]

\* JSON.stringify(STATE) as readJSON gives it back: every entry of
\* STATE.lastNotificationTime, whether or not its name is a target
StateJSON(state) == [n \in DOMAIN state |-> state[n]]

\* line 466: write(STATE_FILEPATH, JSON.stringify(STATE), { flag: 'w' })
Cleanup ==
    /\ pc = "cleanup"
    /\ stateFile' = StateJSON(lastNotificationTime)
    /\ events' = Append(events, [type |-> "state", name |-> "", probe |-> 0])
    /\ pc' = "done"
    /\ UNCHANGED <<CONFIG, lastNotificationTime, now, run, ti, result,
                   responseTimeFailures, i, probeLogs, errorLog, dingCalls,
                   posts, callVars>>

Next == PingTarget \/ RetryPing \/ AfterRetries \/ Flush \/ Cleanup

Spec == Init /\ [][Next]_vars

\* every awaited request, file write and notification attempt settles (a
\* request that is never answered is aborted by its timer), so the script
\* goes on whenever it has a next step
SpecLive == Spec /\ WF_vars(Next)

-----------------------------------------------------------------------------
(* consecutive runs of the script on the same state file *)

\* what the network does in these runs: no answer, an answer as expected,
\* a slow answer
RunsNets ==
    {n \in RunNets :
        \/ n.kind = "never"
        \/ /\ n.kind = "response"
           /\ n.status = DefaultStatus
           /\ n.headers # <<>>
           /\ n.at \in {500, 1500}}

\* one target, at most one retry, a notifier
InitRuns ==
    /\ \E retries \in {0, 1}, cooldown \in Cooldowns, file \in StoredFiles :
         /\ file[Names[2]] = <<>>
         /\ Loaded([targets |-> <<RunTarget(Names[1], retries, cooldown)>>,
                    notifier |-> TRUE], file)
    /\ pc = "ping"

\* the script is started again: lines 378-418 with the state file the
\* run before wrote; the files and logs of the run before are kept
NewRun ==
    /\ pc = "done"
    /\ run < MaxRuns
    /\ run' = run + 1
    /\ \E gap \in RunGaps : now' = now + gap
    /\ lastNotificationTime' = stateFile
    /\ pc' = "ping"
    /\ ti' = 1
    /\ result' = NoResult
    /\ responseTimeFailures' = 0
    /\ i' = 0
    /\ UNCHANGED <<CONFIG, stateFile, probeLogs, errorLog, dingCalls, posts,
                   events, callVars>>

NextRuns ==
    \/ PingTargetOn(RunsNets)
    \/ RetryPingOn(RunsNets)
    \/ AfterRetries
    \/ Flush
    \/ Cleanup
    \/ NewRun

SpecRuns == InitRuns /\ [][NextRuns]_vars

-----------------------------------------------------------------------------
(* the start of the script: readConfig, and the exit code *)

\* a target of the config file: what kind of JSON value it is, and its
\* `name` and `url`: <<>> for a missing key, else the type and the text
FileTarget(type, name, url) == [type |-> type, name |-> name, url |-> url]

GoodTarget(name) ==
    FileTarget("object", <<"string", name>>, <<"string", "http://" \o name>>)

\* targets that readConfig refuses: a string, null, no name, a name that is
\* a number, no url, a url that is a number
BadTargets ==
    {FileTarget("string", <<>>, <<>>),
     FileTarget("null", <<>>, <<>>),
     FileTarget("object", <<>>, <<"string", "http://c">>),
     FileTarget("object", <<"number", "5">>, <<"string", "http://c">>),
     FileTarget("object", <<"string", "c">>, <<>>),
     FileTarget("object", <<"string", "c">>, <<"number", "5">>)}

TargetLists ==
    {<<>>, <<GoodTarget(Names[1])>>,
     <<GoodTarget(Names[1]), GoodTarget(Names[2])>>,
     <<GoodTarget(Names[1]), GoodTarget(Names[1])>>}
    \cup {<<bad>> : bad \in BadTargets}
    \cup {<<GoodTarget(Names[1]), bad>> : bad \in BadTargets}

\* what readJSON finds in the config file: no file, text that is not JSON, a
\* JSON string, or an object; `targets` missing, a string or an array;
\* `notifier` missing, {}, null or an object with a url
ConfigFiles ==
    [json : {"missing", "unparseable", "string"}, targets : {"absent"},
     list : {<<>>}, notifier : {"absent"}]
    \cup [json : {"object"}, targets : {"absent", "string"},
          list : {<<>>}, notifier : {"absent", "url"}]
    \cup [json : {"object"}, targets : {"array"},
          list : TargetLists, notifier : {"absent", "empty", "null", "url"}]

TargetThrowsDuplicatesAllowed(list, k) ==
    \/ list[k].type # "object"
    \/ ~(list[k].name # <<>> /\ list[k].name[1] = "string")
    \/ ~(list[k].url # <<>> /\ list[k].url[1] = "string")

\* the callback of config.targets.forEach throws for the k-th target: it is
\* not an object (`in` throws a TypeError for null), it has no string name
\* or no string url, or its name was used before
TargetThrows(list, k) ==
    \/ list[k].type \notin {"object", "null"}
    \/ list[k].type = "null"
    \/ ~(list[k].name # <<>> /\ list[k].name[1] = "string")
    \/ ~(list[k].url # <<>> /\ list[k].url[1] = "string")
    \/ \E j \in 1..(k - 1) : list[j].name = list[k].name

\* readConfig(filepath): "null" if a check or an operator throws inside the
\* try block, else the config
readConfig(file) ==
    IF file.json \in {"missing", "unparseable"} \/ file.json # "object"
    THEN "null"
    ELSE IF ~(file.targets # "absent" \/ file.targets = "array")
    THEN "null"
    ELSE IF file.targets # "array"
    THEN "null"
    ELSE IF \E k \in 1..Len(file.list) : TargetThrows(file.list, k)
    THEN "null"
    ELSE IF /\ file.notifier # "absent"
            /\ (file.notifier = "null" \/ file.notifier = "empty")
    THEN "null"
    ELSE "config"

\* CONFIG after the built-in defaults are applied to an accepted file
WithDefaults(file) ==
    [targets |-> [k \in 1..Len(file.list) |->
                     RunTarget(file.list[k].name[2], 0, 0)],
     notifier |-> file.notifier = "url"]

\* no config yet
NoConfig == [targets |-> <<>>, notifier |-> FALSE]

\* what the network does in these runs: no answer, or an answer as expected
LoadNets == {n \in RunsNets : n.kind = "response" => n.at = 500}

\* nothing was probed, written or sent yet
AtRest ==
    /\ now = StartTime
    /\ run = 1
    /\ ti = 1
    /\ result = NoResult
    /\ responseTimeFailures = 0
    /\ i = 0
    /\ pokes = [n \in NameSet |-> <<>>]
    /\ probeNets = [n \in NameSet |-> <<>>]
    /\ dataFile = [n \in NameSet |-> <<>>]
    /\ dataHeaders = [n \in NameSet |-> IF stateFile[n] = <<>> THEN 0 ELSE 1]
    /\ warnLog = <<>>
    /\ errorLog = <<>>
    /\ dingCalls = <<>>
    /\ posts = <<>>
    /\ events = <<>>
    /\ pokeIn = <<>>
    /\ pokeOut = <<>>
    /\ exitCode = <<>>

\* the script starts: nothing is read yet
InitLoad ==
    /\ configFile \in ConfigFiles
    /\ stateFile \in {f \in StoredFiles : f[Names[2]] = <<>>}
    /\ CONFIG = NoConfig
    /\ lastNotificationTime = [n \in NameSet |-> <<>>]
    /\ pc = "load"
    /\ objects = <<>>
    /\ parsed = <<>>
    /\ AtRest

\* lines 378-379: if (!CONFIG) process.exit(1)
ExitInvalid ==
    /\ pc = "load"
    /\ readConfig(configFile) = "null"
    /\ exitCode' = <<1>>
    /\ errorLog' = Append(errorLog, [source |-> "readConfig", name |-> ""])
    /\ pc' = "exited"
    /\ UNCHANGED <<CONFIG, lastNotificationTime, stateFile, now, run, ti,
                   result, responseTimeFailures, i, probeLogs, dingCalls,
                   posts, events, pokeIn, pokeOut, configFile, objects,
                   parsed>>

\* lines 378-418: the config is accepted, the defaults are applied and the
\* state file is read
LoadConfig ==
    /\ pc = "load"
    /\ readConfig(configFile) # "null"
    /\ CONFIG' = WithDefaults(configFile)
    /\ lastNotificationTime' = stateFile
    /\ pc' = IF configFile.list = <<>> THEN "cleanup" ELSE "ping"
    /\ UNCHANGED <<stateFile, now, run, ti, result, responseTimeFailures, i,
                   probeLogs, errorLog, dingCalls, posts, events, callVars>>

\* the script ends after line 467
ExitNormal ==
    /\ pc = "done"
    /\ exitCode' = <<0>>
    /\ pc' = "exited"
    /\ UNCHANGED <<CONFIG, lastNotificationTime, stateFile, now, run, ti,
                   result, responseTimeFailures, i, probeLogs, errorLog,
                   dingCalls, posts, events, pokeIn, pokeOut, configFile,
                   objects, parsed>>

NextLoad ==
    \/ ExitInvalid
    \/ LoadConfig
    \/ PingTargetOn(LoadNets)
    \/ Flush
    \/ Cleanup
    \/ ExitNormal

SpecLoad == InitLoad /\ [][NextLoad]_vars

-----------------------------------------------------------------------------
(* the default merge: mergeObj on the objects of the config *)

\* a property of an object holds a number or a reference to an object
Num(n) == [num |-> n]
Ref(id) == [ref |-> id]
IsRef(v) == "ref" \in DOMAIN v

EmptyObject == [key \in {} |-> Num(0)]

\* the object with the property key -> val if `given`, else {}
Prop(given, key, val) ==
    IF given THEN [k \in {key} |-> val] ELSE EmptyObject

\* the objects of CONFIG.targets in the model, and of CONFIG.defaults.target
MergeTargetIds == <<"t1", "t2">>
ConfigDefaultId == "c"

\* what a target, or defaults.target, gives: a timeout or none, an expect
\* object or none, in it a status or none and a headers object or none, in
\* it one of the keys or none
Shapes(HeaderKeysGiven) ==
    {sh \in [timeout : BOOLEAN, expect : BOOLEAN, status : BOOLEAN,
             headers : {"absent", "empty"} \cup HeaderKeysGiven] :
        ~sh.expect => ~sh.status /\ sh.headers = "absent"}

\* the objects of one target (or of defaults.target) of shape sh, its
\* numbers counted from `base`
ShapeObjects(id, sh, base) ==
    LET eid == id \o ".expect"
        hid == eid \o ".headers"
        top == [k \in {id} |->
                   Prop(sh.timeout, "timeout", Num(base + 1)) @@
                   Prop(sh.expect, "expect", Ref(eid))]
        exp == IF sh.expect
               THEN [k \in {eid} |->
                        Prop(sh.status, "status", Num(base + 2)) @@
                        Prop(sh.headers # "absent", "headers", Ref(hid))]
               ELSE EmptyObject
        hdr == IF sh.headers # "absent"
               THEN [k \in {hid} |->
                        Prop(sh.headers # "empty", sh.headers, Num(base + 3))]
               ELSE EmptyObject
    IN  top @@ exp @@ hdr

\* DEFAULTS.target (lines 381-393)
BuiltIn ==
    [k \in {"D"} |->
        [init |-> Ref("D.init"), expect |-> Ref("D.expect"),
         responseTimeRetries |-> Num(0), timeout |-> Num(DefaultTimeout),
         notifierCooldownMins |-> Num(0), truncateBody |-> Num(1000)]]
    @@ [k \in {"D.init"} |-> EmptyObject]
    @@ [k \in {"D.expect"} |->
           [status |-> Num(DefaultStatus), headers |-> Ref("D.expect.headers"),
            responseTime |-> Num(DefaultResponseTime)]]
    @@ [k \in {"D.expect.headers"} |-> EmptyObject]

\* the order of the keys in Object.entries
KeyOrder ==
    <<"init", "expect", "status", "headers", "responseTime",
      "responseTimeRetries", "timeout", "notifierCooldownMins",
      "truncateBody", "h1", "h2">>

KeepsNever(obj, key) == FALSE

\* key in dest
Keeps(obj, key) == key \in DOMAIN obj

\* mergeObj(dest, src) on the objects h: for every entry of src, in order,
\* merge into dest[key] if the value is an object and dest has the key, else
\* set dest[key] to the value (the same object, not a copy) if dest has no
\* such key
RECURSIVE MergeEntries(_, _, _, _)
MergeEntries(h, dest, entries, k) ==
    IF k > Len(KeyOrder) THEN h
    ELSE
      LET key == KeyOrder[k]
      IN  IF key \notin DOMAIN entries
          THEN MergeEntries(h, dest, entries, k + 1)
          ELSE
            LET val == entries[key]
                merged ==
                    IF IsRef(val) /\ key \in DOMAIN h[dest]
                    THEN MergeEntries(h, h[dest][key].ref, h[val.ref], 1)
                    ELSE IF ~Keeps(h[dest], key)
                    THEN [h EXCEPT ![dest] =
                             [kk \in DOMAIN @ \cup {key} |->
                                 IF kk = key THEN val ELSE @[kk]]]
                    ELSE h
            IN  MergeEntries(merged, dest, entries, k + 1)

mergeObj(h, dest, src) == MergeEntries(h, dest, h[src], 1)

\* the config is parsed; the defaults are not yet applied
InitMerge ==
    /\ \E sh1 \in Shapes({"h1"}), sh2 \in Shapes({"h1"}),
          shc \in Shapes({"h1", "h2"}) :
         parsed = ShapeObjects(MergeTargetIds[1], sh1, 10)
                  @@ ShapeObjects(MergeTargetIds[2], sh2, 20)
                  @@ ShapeObjects(ConfigDefaultId, shc, 90)
                  @@ BuiltIn
    /\ objects = parsed
    /\ configFile = <<>>
    /\ CONFIG = NoConfig
    /\ stateFile = [n \in NameSet |-> <<>>]
    /\ lastNotificationTime = stateFile
    /\ pc = "merge"
    /\ AtRest

\* lines 401-404: one iteration of the loop that applies the defaults
MergeTarget ==
    /\ pc = "merge"
    /\ objects' = mergeObj(mergeObj(objects, MergeTargetIds[ti],
                                    ConfigDefaultId),
                           MergeTargetIds[ti], "D")
    /\ ti' = ti + 1
    /\ pc' = IF ti < Len(MergeTargetIds) THEN "merge" ELSE "merged"
    /\ UNCHANGED <<CONFIG, lastNotificationTime, stateFile, now, run, result,
                   responseTimeFailures, i, probeLogs, errorLog, dingCalls,
                   posts, events, pokeIn, pokeOut, configFile, exitCode,
                   parsed>>

NextMerge == MergeTarget

SpecMerge == InitMerge /\ [][NextMerge]_vars

-----------------------------------------------------------------------------
(* a single call of poke, on any target and any network behaviour *)

PokeTargets ==
    [name : {Names[1]},
     expect : [status : Statuses, headers : ExpectHeaderSets,
               responseTime : {500, DefaultResponseTime}],
     responseTimeRetries : {0},
     timeout : {1000, DefaultTimeout},
     notifierCooldownMins : {0}]

InitPoke ==
    /\ \E t \in PokeTargets :
         Loaded([targets |-> <<t>>, notifier |-> FALSE],
                [n \in NameSet |-> <<>>])
    /\ pc = "poke"

DoPoke ==
    /\ pc = "poke"
    /\ pokeIn = <<>>
    /\ \E net \in Nets :
         /\ pokeIn' = <<Target, net>>
         /\ pokeOut' = <<Poke(Target, net, now)>>
    /\ UNCHANGED runVars

NextPoke == DoPoke

SpecPoke == InitPoke /\ [][NextPoke]_vars

-----------------------------------------------------------------------------
(* the body recorded with a STATUS failure *)

\* the texts of at most n characters
RECURSIVE Texts(_)
Texts(n) ==
    IF n = 0 THEN {<<>>}
    ELSE Texts(n - 1) \cup
         {Append(t, c) : t \in {u \in Texts(n - 1) : Len(u) = n - 1},
                         c \in {"x", "y"}}

\* truncateBody of a target: null, or a number of characters
TruncateBodies == {<<>>} \cup {<<n>> : n \in 0..(MaxBody - 1)}

\* '...[truncated]'
Marker == <<"...[truncated]">>

\* text.slice(0, n) for n >= 0
Slice(text, n) == SubSeq(text, 1, IF n < Len(text) THEN n ELSE Len(text))

\* (truncateBody && text.length > truncateBody)
\*     ? `${text.slice(0, truncateBody)}...[truncated]` : text
FailureBody(truncateBody, text) ==
    IF truncateBody # <<>> /\ truncateBody[1] # 0
       /\ Len(text) > truncateBody[1]
    THEN Slice(text, truncateBody[1]) \o Marker
    ELSE text

InitBody ==
    /\ Loaded(NoConfig, [n \in NameSet |-> <<>>])
    /\ pc = "body"

\* lines 171-176: the body of a response with an unexpected status
DoBody ==
    /\ pc = "body"
    /\ pokeIn = <<>>
    /\ \E truncateBody \in TruncateBodies, text \in Texts(MaxBody) :
         /\ pokeIn' = <<truncateBody, text>>
         /\ pokeOut' = <<FailureBody(truncateBody, text)>>
    /\ UNCHANGED runVars

NextBody == DoBody

SpecBody == InitBody /\ [][NextBody]_vars

-----------------------------------------------------------------------------
(* a call of poke with the `init` of the target *)

\* `init` of a target: not given (poke takes {}), an object without a body,
\* an object whose body is an object, a string
Inits == {"undefined", "object", "bodyObject", "string"}

PrepareThrowsNever(init) == FALSE

\* if ('body' in init && typeof init.body === 'object'): the `in` operator
\* throws a TypeError for an `init` that is not an object
PrepareThrows(init) == init = "string"

\* poke({ ..., init, ... }) started at instant t: the Result, the number of
\* requests made with fetch and whether the call threw.  An error of the
\* preparation is caught before fetch is called and before the timestamp is
\* set; `return result` in the finally block ends every call.
PokeCall(target, init, net, t) ==
    IF PrepareThrows(init)
    THEN [result |-> [name |-> target.name, timestamp |-> <<>>,
                      status |-> <<>>, responseTime |-> <<>>,
                      failure |-> "NONE"],
          requests |-> 0,
          threw |-> FALSE]
    ELSE [result |-> Poke(target, net, t),
          requests |-> 1,
          threw |-> FALSE]

InitCall ==
    /\ \E t \in PokeTargets :
         Loaded([targets |-> <<t>>, notifier |-> FALSE],
                [n \in NameSet |-> <<>>])
    /\ pc = "call"

DoCall ==
    /\ pc = "call"
    /\ pokeIn = <<>>
    /\ \E net \in Nets, init \in Inits :
         LET call == PokeCall(Target, init, net, now)
         IN  /\ pokeIn' = <<Target, net, init>>
             /\ pokeOut' = <<call.result, call.requests, call.threw>>
    /\ UNCHANGED runVars

NextCall == DoCall

SpecCall == InitCall /\ [][NextCall]_vars

-----------------------------------------------------------------------------
(* Properties of a single probe (SpecPoke) *)

PokeDone == pokeIn # <<>>
PokeTarget == pokeIn[1]
PokeNet == pokeIn[2]
PokeResult == pokeOut[1]

\* the request got no response within target.timeout
NoResponseInTime(target, net) == net.kind = "never" \/ net.at > target.timeout

\* the abort timer fired while the request or the reading of the body of a
\* response with an unexpected status was pending
TimedOut(target, net) ==
    \/ net.kind = "never"
    \/ net.at > target.timeout
    \/ net.at = target.timeout /\ net.timerFirst
    \/ /\ net.kind = "response"
       /\ net.status # target.expect.status
       /\ \/ net.at + net.bodyAt > target.timeout
          \/ net.at + net.bodyAt = target.timeout /\ net.timerFirst

\* the request or the reading of the body ended with a transport error
TransportError(target, net) ==
    /\ ~TimedOut(target, net)
    /\ \/ net.kind = "error"
       \/ net.status # target.expect.status /\ net.body = "error"

StatusFails(target, net) == net.status # target.expect.status

HeadersFail(target, net) ==
    \E key \in DOMAIN target.expect.headers :
        \/ key \notin DOMAIN net.headers
        \/ /\ target.expect.headers[key] # ""
           /\ net.headers[key] # target.expect.headers[key]

ResponseTimeFails(target, net) == net.at > target.expect.responseTime

\* the first failing check in the order TIMEOUT > STATUS > HEADER >
\* RESPONSE_TIME
FirstFailing(target, net) ==
    IF TimedOut(target, net) THEN "TIMEOUT"
    ELSE IF StatusFails(target, net) THEN "STATUS"
    ELSE IF HeadersFail(target, net) THEN "HEADER"
    ELSE IF ResponseTimeFails(target, net) THEN "RESPONSE_TIME"
    ELSE "NONE"

C2_TimeoutPrecedence ==
    (PokeDone /\ NoResponseInTime(PokeTarget, PokeNet)) =>
        PokeResult.failure = "TIMEOUT"

\* a response that arrives after the timeout, with a wrong status and a
\* missing header, recorded as TIMEOUT
C2_Witness ==
    /\ PokeDone
    /\ PokeNet.kind = "response"
    /\ PokeNet.at > PokeTarget.timeout
    /\ StatusFails(PokeTarget, PokeNet)
    /\ HeadersFail(PokeTarget, PokeNet)
    /\ PokeResult.failure = "TIMEOUT"

-----------------------------------------------------------------------------
(* Properties of the evaluation of a target (Spec) *)

\* the calls of ding for the target `name`, as <<name, result>> records
DingsOf(name) ==
    LET ForName(d) == d.name = name
        ds == SelectSeq(dingCalls, ForName)
    IN  [k \in 1..Len(ds) |-> [name |-> ds[k].name, result |-> ds[k].result]]

PostsOf(name) ==
    LET ForName(p) == p.name = name
    IN  SelectSeq(posts, ForName)

Request(name, res) == [name |-> name, result |-> res]

\* the k-th target has been evaluated: its pass of the main loop is over
Evaluated(k) ==
    /\ k \in 1..Len(CONFIG.targets)
    /\ k < ti \/ (k = ti /\ pc \in {"flush", "cleanup", "done"})

RetriesOf(k) == CONFIG.targets[k].responseTimeRetries

PokesOf(k) == pokes[CONFIG.targets[k].name]

AllResponseTime(ps) == \A j \in 1..Len(ps) : ps[j].failure = "RESPONSE_TIME"

\* C3: with responseTimeRetries = R > 0, an evaluation whose probes all
\* return RESPONSE_TIME ends only after R+1 probes, and requests exactly one
\* notification, for the last Result.
C3_RetryExhaustion ==
    \A k \in 1..Len(Names) :
        (Evaluated(k) /\ RetriesOf(k) > 0 /\ AllResponseTime(PokesOf(k))) =>
            /\ Len(PokesOf(k)) = RetriesOf(k) + 1
            /\ DingsOf(Names[k]) =
                  <<Request(Names[k], PokesOf(k)[RetriesOf(k) + 1])>>

\* two retries, three RESPONSE_TIME results, one request
C3_Witness ==
    /\ Evaluated(1)
    /\ RetriesOf(1) = 2
    /\ Len(PokesOf(1)) = 3
    /\ AllResponseTime(PokesOf(1))
    /\ Len(DingsOf(Names[1])) = 1
    /\ CONFIG.notifier

\* C4: once a retry probe returns a Result without failure, the target is
\* not probed again and no notification is requested for it.
C4_RetrySuccessStops ==
    \A k \in 1..Len(CONFIG.targets) :
        \A j \in 2..Len(PokesOf(k)) :
            PokesOf(k)[j].failure = "NONE" =>
                /\ j = Len(PokesOf(k))
                /\ DingsOf(Names[k]) = <<>>
                /\ PostsOf(Names[k]) = <<>>

\* RESPONSE_TIME, RESPONSE_TIME, success: run over, nothing requested
C4_Witness ==
    /\ pc = "done"
    /\ RetriesOf(1) = 2
    /\ Len(PokesOf(1)) = 3
    /\ PokesOf(1)[2].failure = "RESPONSE_TIME"
    /\ PokesOf(1)[3].failure = "NONE"
    /\ PokesOf(1)[3].status = <<DefaultStatus>>
    /\ DingsOf(Names[1]) = <<>>
    /\ CONFIG.notifier

\* C5: once a retry probe returns a failure other than RESPONSE_TIME, the
\* target is not probed again and exactly one notification is requested,
\* for that retry's Result.
C5_RetryOtherFailureNotifies ==
    \A k \in 1..Len(CONFIG.targets) :
        \A j \in 2..Len(PokesOf(k)) :
            PokesOf(k)[j].failure \notin {"NONE", "RESPONSE_TIME"} =>
                /\ j = Len(PokesOf(k))
                /\ DingsOf(Names[k]) = <<Request(Names[k], PokesOf(k)[j])>>

\* RESPONSE_TIME then HEADER with a retry left: run over, one request
C5_Witness ==
    /\ pc = "done"
    /\ RetriesOf(1) = 2
    /\ Len(PokesOf(1)) = 2
    /\ PokesOf(1)[1].failure = "RESPONSE_TIME"
    /\ PokesOf(1)[2].failure = "HEADER"
    /\ DingsOf(Names[1]) = <<Request(Names[1], PokesOf(1)[2])>>

\* C6: with responseTimeRetries = R > 0, a notification for a RESPONSE_TIME
\* Result is requested only when R+1 probes were made and all of them
\* returned RESPONSE_TIME.
C6_ResponseTimeNotifiedOnlyWhenAllSlow ==
    \A k \in 1..Len(CONFIG.targets) :
        \A d \in 1..Len(DingsOf(Names[k])) :
            (RetriesOf(k) > 0
                /\ DingsOf(Names[k])[d].result.failure = "RESPONSE_TIME") =>
                /\ Len(PokesOf(k)) = RetriesOf(k) + 1
                /\ AllResponseTime(PokesOf(k))

\* a RESPONSE_TIME notification requested after one retry
C6_Witness ==
    /\ pc = "done"
    /\ RetriesOf(1) = 1
    /\ Len(DingsOf(Names[1])) = 1
    /\ DingsOf(Names[1])[1].result.failure = "RESPONSE_TIME"
    /\ Len(PokesOf(1)) = 2

\* C7: an initial failure that is not RESPONSE_TIME, or any initial failure
\* with responseTimeRetries = 0, is not re-probed and requests exactly one
\* notification, for the initial Result.
C7_InitialFailureNotifies ==
    \A k \in 1..Len(CONFIG.targets) :
        (/\ Len(PokesOf(k)) >= 1
         /\ PokesOf(k)[1].failure # "NONE"
         /\ PokesOf(k)[1].failure # "RESPONSE_TIME" \/ RetriesOf(k) = 0) =>
            /\ Len(PokesOf(k)) = 1
            /\ DingsOf(Names[k]) = <<Request(Names[k], PokesOf(k)[1])>>

\* no retries: a RESPONSE_TIME failure of the first target and a TIMEOUT of
\* the second, one request each
C7_Witness ==
    /\ pc = "done"
    /\ Len(CONFIG.targets) = 2
    /\ RetriesOf(1) = 0
    /\ PokesOf(1)[1].failure = "RESPONSE_TIME"
    /\ PokesOf(2)[1].failure = "TIMEOUT"
    /\ Len(dingCalls) = 2

\* with retries: an initial STATUS failure, one request
C7_WitnessRetries ==
    /\ pc = "done"
    /\ RetriesOf(1) = 2
    /\ PokesOf(1)[1].failure = "STATUS"
    /\ Len(DingsOf(Names[1])) = 1

\* C8: a target whose initial probe returns no failure is probed once and no
\* notification is requested or sent for it.
C8_InitialSuccessDone ==
    \A k \in 1..Len(CONFIG.targets) :
        (Len(PokesOf(k)) >= 1 /\ PokesOf(k)[1].failure = "NONE") =>
            /\ Len(PokesOf(k)) = 1
            /\ DingsOf(Names[k]) = <<>>
            /\ PostsOf(Names[k]) = <<>>

\* a first target that answered as expected, with retries and a notifier
\* configured, and the run over
C8_Witness ==
    /\ pc = "done"
    /\ CONFIG.notifier
    /\ RetriesOf(1) = 2
    /\ Len(PokesOf(1)) = 1
    /\ PokesOf(1)[1].failure = "NONE"
    /\ PokesOf(1)[1].status = <<DefaultStatus>>
    /\ DingsOf(Names[1]) = <<>>

-----------------------------------------------------------------------------
(* Properties of the notification gate (Spec) *)

CooldownMsOf(name) ==
    LET k == CHOOSE k \in 1..Len(CONFIG.targets) : CONFIG.targets[k].name = name
    IN  CONFIG.targets[k].notifierCooldownMins * 60 * 1000

IsTimestamp(v) == Len(v) = 2 /\ v[1] = "iso"

\* the ding call d came less than the cooldown after the stored timestamp
WithinCooldown(d) ==
    IsTimestamp(d.stored) /\ d.at - d.stored[2] < CooldownMsOf(d.name)

\* the ding call d came at least the cooldown after the stored timestamp
CooldownOver(d) ==
    IsTimestamp(d.stored) /\ d.at - d.stored[2] >= CooldownMsOf(d.name)

\* C9: a step that requests a notification less than the cooldown after the
\* target's stored last-notification timestamp sends no POST and leaves
\* the last-notification map unchanged.
C9_CooldownSuppression ==
    [][(/\ Len(dingCalls') = Len(dingCalls) + 1
        /\ WithinCooldown(dingCalls'[Len(dingCalls')])) =>
           /\ posts' = posts
           /\ lastNotificationTime' = lastNotificationTime]_vars

\* cooldown of 10 minutes, last notification 5 minutes before the run: the
\* request for the first target was suppressed
C9_Witness ==
    /\ pc = "done"
    /\ CONFIG.notifier
    /\ Len(dingCalls) >= 1
    /\ dingCalls[1].name = Names[1]
    /\ dingCalls[1].stored = ToISOString(StartTime - 5 * 60 * 1000)
    /\ WithinCooldown(dingCalls[1])
    /\ PostsOf(Names[1]) = <<>>
    /\ stateFile[Names[1]] = ToISOString(StartTime - 5 * 60 * 1000)

\* C10: with a notifier, a notification requested at least the cooldown
\* after the stored timestamp is sent, and when the send succeeds the stored
\* timestamp of the target is the time of the send, also in the state file
\* written at the end of the run.
C10_CooldownExpiryUpdates ==
    \A k \in 1..Len(dingCalls) :
        LET d == dingCalls[k]
        IN  (CONFIG.notifier /\ CooldownOver(d)) =>
                \E j \in 1..Len(posts) :
                    /\ posts[j].name = d.name
                    /\ posts[j].at = d.at
                    /\ posts[j].outcome = "ok" =>
                          /\ IsTimestamp(lastNotificationTime[d.name])
                          /\ lastNotificationTime[d.name][2] >= d.at
                          /\ pc = "done" =>
                                stateFile[d.name] = lastNotificationTime[d.name]

\* the notification POSTs that were answered with 2xx
SentOk == SelectSeq(posts, LAMBDA p : p.outcome = "ok")

\* a notification was requested in every run before the current one
FailedInEveryRun == Len(dingCalls) >= run - 1

\* C11: over consecutive runs on the same state file in which the target
\* fails and every notification send succeeds, any two notifications sent for
\* a target with a cooldown of C > 0 minutes are at least C minutes apart.
C11_RateLimitAcrossRuns ==
    (/\ FailedInEveryRun
     /\ Len(SentOk) = Len(posts)) =>
        \A j, k \in 1..Len(posts) :
            (/\ j < k
             /\ posts[j].name = posts[k].name
             /\ CooldownMsOf(posts[j].name) > 0) =>
                posts[k].at - posts[j].at >= CooldownMsOf(posts[j].name)

\* the step attempts a notification POST that fails
FailedSendStep ==
    /\ Len(posts') = Len(posts) + 1
    /\ posts'[Len(posts')].outcome # "ok"

\* the stored value the request d met is a timestamp written at or after the
\* failed POST p for the same target
StoredSince(d, p) ==
    /\ d.name = p.name
    /\ p.at < d.at
    /\ IsTimestamp(d.stored)
    /\ d.stored[2] >= p.at

\* C12: a notification send that fails (non-2xx, notifier timeout, network
\* error) leaves the last-notification timestamps unchanged, and while every
\* send has failed no request for a target, in this run or the next, meets a
\* timestamp stored since a failed attempt for it.
C12_FailedSendKeepsTimestamp ==
    /\ [][FailedSendStep => lastNotificationTime' = lastNotificationTime]_vars
    /\ []((\A l \in 1..Len(posts) : posts[l].outcome # "ok") =>
             \A k \in 1..Len(dingCalls), j \in 1..Len(posts) :
                 ~StoredSince(dingCalls[k], posts[j]))

\* cooldown of 10 minutes: the send of the first run got a non-2xx answer,
\* and the request of the second run, a minute later, was sent
C12_Witness ==
    /\ run = 2
    /\ Len(posts) = 2
    /\ posts[1].outcome = "non2xx"
    /\ CooldownMsOf(Names[1]) > 0
    /\ posts[2].at - posts[1].at < CooldownMsOf(Names[1])
    /\ Len(dingCalls) = 2
    /\ dingCalls[2].at = posts[2].at
    /\ ~IsTimestamp(lastNotificationTime[Names[1]])

\* a POST was attempted for the ding call d
SentFor(d) ==
    \E j \in 1..Len(posts) : posts[j].name = d.name /\ posts[j].at = d.at

\* C13: with a notifier, a requested notification is always sent when the
\* target's cooldown is 0, and also when the state has no entry or an
\* unparseable entry for the target, whatever the cooldown.
C13_SentWithoutCooldownOrEntry ==
    \A k \in 1..Len(dingCalls) :
        LET d == dingCalls[k]
        IN  (/\ CONFIG.notifier
             /\ \/ CooldownMsOf(d.name) = 0
                \/ ~IsTimestamp(d.stored)) => SentFor(d)

\* some notification attempt of the run failed
SomeSendFailed == \E j \in 1..Len(posts) : posts[j].outcome # "ok"

\* the targets after the one the j-th POST was for
Following(j) ==
    {k \in 1..Len(CONFIG.targets) :
        \E l \in 1..(k - 1) : CONFIG.targets[l].name = posts[j].name}

\* C14: a failed notification attempt (non-2xx, timeout, network error)
\* never ends the run: the script is never left by an error, and once the
\* run is over every target after the one of the failed attempt was probed
\* and logged and the state file holds the last-notification map.
C14_SendFailureNeverAborts ==
    /\ pc # "crashed"
    /\ (pc = "done" /\ SomeSendFailed) =>
          /\ stateFile = lastNotificationTime
          /\ \A j \in 1..Len(posts) :
                posts[j].outcome # "ok" =>
                    \A k \in Following(j) :
                        LET name == CONFIG.targets[k].name
                        IN  /\ pokes[name] # <<>>
                            /\ Len(dataFile[name]) = Len(pokes[name])

\* the send for the first of two targets ended with a network error; the
\* second target was probed and the run is over
C14_Witness ==
    /\ pc = "done"
    /\ Len(CONFIG.targets) = 2
    /\ Len(posts) >= 1
    /\ posts[1].name = Names[1]
    /\ posts[1].outcome = "error"
    /\ pokes[Names[2]] # <<>>
    /\ Len(errorLog) >= 2

\* the rows of the CSV of `name` are those of its probes, in probe order
RowsFollowProbes(name) ==
    /\ Len(dataFile[name]) = Len(pokes[name])
    /\ \A k \in 1..Len(pokes[name]) :
          dataFile[name][k] = DataRow(pokes[name][k])

\* C15: the rows appended to a target's CSV are one per probe of the target
\* (initial probe and retries), in probe order, whatever the outcomes and
\* the notify decision; a header row is written only when the file did not
\* exist, so the file never has more than one.
C15_DataRowPerProbe ==
    /\ [](\A name \in NameSet :
             /\ RowsFollowProbes(name)
             /\ dataHeaders[name] <= 1
             /\ pokes[name] # <<>> => dataHeaders[name] = 1)
    /\ [][\A name \in NameSet :
             dataHeaders'[name] # dataHeaders[name] =>
                 /\ dataHeaders[name] = 0
                 /\ dataFile[name] = <<>>
                 /\ dataHeaders'[name] = 1]_vars

\* a new file with its header and three rows: two slow probes and a timeout,
\* for which a notification was sent
C15_Witness ==
    /\ pc = "done"
    /\ stateFile[Names[1]] = <<>>
    /\ dataHeaders[Names[1]] = 1
    /\ Len(dataFile[Names[1]]) = 3
    /\ Len(pokes[Names[1]]) = 3
    /\ pokes[Names[1]][2].failure = "RESPONSE_TIME"
    /\ pokes[Names[1]][3].failure = "TIMEOUT"
    /\ PostsOf(Names[1]) # <<>>

\* the Results of the probes of `name` that carry a failure, in probe order
FailedProbes(name) ==
    SelectSeq(pokes[name], LAMBDA res : res.failure # "NONE")

\* the failing Results of the targets k..n of the list, in probe order
RECURSIVE FailedFrom(_)
FailedFrom(k) ==
    IF k > Len(CONFIG.targets) THEN <<>>
    ELSE FailedProbes(CONFIG.targets[k].name) \o FailedFrom(k + 1)

\* C16: the warn log of a run holds exactly one record for each probe whose
\* Result carries a failure, retries included, whether or not a notification
\* was requested or suppressed, and none for a probe without a failure.
C16_WarnRecordPerFailedProbe == warnLog = FailedFrom(1)

\* two slow probes and then a good one: two warn records, three probes, no
\* notification requested
C16_Witness ==
    /\ pc = "done"
    /\ Len(pokes[Names[1]]) = 3
    /\ pokes[Names[1]][1].failure = "RESPONSE_TIME"
    /\ pokes[Names[1]][2].failure = "RESPONSE_TIME"
    /\ pokes[Names[1]][3].failure = "NONE"
    /\ Len(CONFIG.targets) = 1
    /\ Len(warnLog) = 2
    /\ dingCalls = <<>>

\* a failing probe whose notification is suppressed has its warn record
C16_WitnessSuppressed ==
    /\ pc = "done"
    /\ CONFIG.notifier
    /\ Len(dingCalls) = 1
    /\ WithinCooldown(dingCalls[1])
    /\ posts = <<>>
    /\ Len(warnLog) = 1

\* the configured target called `name`
TargetOf(name) ==
    CONFIG.targets[CHOOSE k \in 1..Len(CONFIG.targets) :
                      CONFIG.targets[k].name = name]

\* the k-th probe of `name` received a response: fetch resolved before the
\* abort timer fired
Received(name, k) ==
    /\ probeNets[name][k].kind = "response"
    /\ ~FetchAborted(TargetOf(name), probeNets[name][k])

\* C17: in every data row the response-time column is -1 exactly when the
\* probe received no response and the status column is 0 exactly when it
\* received none; a response measured at t ms, t >= 0, is logged with t.
C17_DataRowSentinels ==
    \A name \in NameSet : \A k \in 1..Len(dataFile[name]) :
        LET row == dataFile[name][k]
        IN  /\ row[2] = -1 <=> ~Received(name, k)
            /\ row[3] = 0 <=> ~Received(name, k)
            /\ Received(name, k) => row[2] = probeNets[name][k].at

\* some expectation check on the response fails
SomeCheckFails(target, net) ==
    \/ StatusFails(target, net)
    \/ HeadersFail(target, net)
    \/ ResponseTimeFails(target, net)

ProbeTransportError(name, k) ==
    TransportError(TargetOf(name), probeNets[name][k])

\* the ERROR entries poke logged for `name`
PokeErrorsOf(name) ==
    SelectSeq(errorLog, LAMBDA e : e.source = "poke" /\ e.name = name)

C19_WitnessRetry ==
    /\ pc = "done"
    /\ Len(pokes[Names[1]]) = 2
    /\ pokes[Names[1]][1].failure = "RESPONSE_TIME"
    /\ ProbeTransportError(Names[1], 2)
    /\ DingsOf(Names[1]) = <<>>

\* C20: every Result whose failure is TIMEOUT has neither a status nor a
\* response time, however the abort timer interleaves with the arrival of
\* the response headers and the reading of the body.
C20_TimeoutWithoutStatus ==
    (PokeDone /\ PokeResult.failure = "TIMEOUT") =>
        /\ PokeResult.status = <<>>
        /\ PokeResult.responseTime = <<>>

\* the `init` of the call, the requests it made and whether it threw
PokeInit == pokeIn[3]
PokeRequests == pokeOut[2]
PokeThrew == pokeOut[3]

C21_WitnessTimeout ==
    /\ PokeDone
    /\ PokeInit = "bodyObject"
    /\ PokeRequests = 1
    /\ PokeResult.failure = "TIMEOUT"

\* the targets of the file are an array of objects, each with a string name
\* and a string url, no name twice
TargetsValid(file) ==
    /\ file.json = "object"
    /\ file.targets = "array"
    /\ \A k \in 1..Len(file.list) :
          /\ file.list[k].type = "object"
          /\ file.list[k].name # <<>> /\ file.list[k].name[1] = "string"
          /\ file.list[k].url # <<>> /\ file.list[k].url[1] = "string"
          /\ \A j \in 1..Len(file.list) :
                j # k => file.list[j].name # file.list[k].name

\* the configuration is invalid: missing or unparseable, no targets array, a
\* target that is not an object or lacks a string name or a string url, a
\* name used twice, or a notifier without url
Invalid(file) ==
    ~TargetsValid(file) \/ file.notifier \in {"empty", "null"}

\* something was written or requested: a probe, a data row, a warn record,
\* a notification, the state file
Acted ==
    \/ events # <<>>
    \/ posts # <<>>
    \/ dingCalls # <<>>
    \/ \E n \in NameSet : pokes[n] # <<>> \/ dataFile[n] # <<>>

\* the state file was written
StateWritten == \E k \in 1..Len(events) : events[k].type = "state"

C22_WitnessValid ==
    /\ pc = "exited"
    /\ exitCode = <<0>>
    /\ Len(CONFIG.targets) = 2
    /\ CONFIG.notifier
    /\ pokes[Names[2]] # <<>>
    /\ posts # <<>>

\* C23: with a config whose notifier is missing or empty, the run probes
\* every target and logs every Result, attempts no notification and writes
\* the last-notification map back as it read it.
C23_NoNotifierStillProbes ==
    (/\ TargetsValid(configFile)
     /\ configFile.notifier \in {"absent", "empty"}
     /\ pc = "exited") =>
        /\ \A k \in 1..Len(configFile.list) :
              LET name == configFile.list[k].name[2]
              IN  /\ pokes[name] # <<>>
                  /\ Len(dataFile[name]) = Len(pokes[name])
        /\ posts = <<>>
        /\ StateWritten
        /\ stateFile = lastNotificationTime

\* the value of a property as JSON: a number, or an object with the values
\* of its properties
RECURSIVE Deep(_, _)
Deep(h, v) ==
    IF IsRef(v)
    THEN [obj |-> [key \in DOMAIN h[v.ref] |-> Deep(h, h[v.ref][key])]]
    ELSE v

\* the value at `path` in the object id: <<>> if a key of the path is missing
RECURSIVE Lookup(_, _, _)
Lookup(h, id, path) ==
    IF Head(path) \notin DOMAIN h[id] THEN <<>>
    ELSE LET v == h[id][Head(path)]
         IN  IF Len(path) = 1 THEN <<Deep(h, v)>>
             ELSE IF IsRef(v) THEN Lookup(h, v.ref, Tail(path))
             ELSE <<>>

\* the value a field takes: the target's own, else that of defaults.target,
\* else the built-in one (<<>> if none has it)
Resolution(id, path) ==
    IF Lookup(parsed, id, path) # <<>> THEN Lookup(parsed, id, path)
    ELSE IF Lookup(parsed, ConfigDefaultId, path) # <<>>
    THEN Lookup(parsed, ConfigDefaultId, path)
    ELSE Lookup(parsed, "D", path)

\* the fields of a target with a built-in default, and the fields that hold
\* a number
TargetFields ==
    {<<"responseTimeRetries">>, <<"timeout">>, <<"notifierCooldownMins">>,
     <<"truncateBody">>, <<"expect", "status">>, <<"expect", "headers">>,
     <<"expect", "responseTime">>}

NumberFields ==
    (TargetFields \ {<<"expect", "headers">>})
    \cup {<<"expect", "headers", "h1">>, <<"expect", "headers", "h2">>}

\* the targets whose defaults are applied
MergedIds == {MergeTargetIds[k] : k \in 1..(ti - 1)}

\* C24 as stated: once the defaults are applied, every field of every
\* target, expect.headers included, has the target's own value if given,
\* else that of defaults.target if given, else the built-in default.
C24_DefaultResolution ==
    \A id \in MergedIds : \A path \in TargetFields :
        Lookup(objects, id, path) = Resolution(id, path)

\* C24, amended: once the defaults are applied, every field of a target that
\* holds a number, and every key of expect.headers, has the target's own
\* value if given, else that of defaults.target if given, else the built-in
\* default, so that expect.headers has the keys of all three; a value given
\* on the target is never overwritten, and applying the defaults to one
\* target leaves the values of the targets resolved before as they were.
C24_DefaultResolutionPerKey ==
    /\ [](\A id \in MergedIds : \A path \in NumberFields :
             Lookup(objects, id, path) = Resolution(id, path))
    /\ [](\A k \in 1..Len(MergeTargetIds) : \A path \in NumberFields :
             Lookup(parsed, MergeTargetIds[k], path) # <<>> =>
                 Lookup(objects, MergeTargetIds[k], path) =
                     Lookup(parsed, MergeTargetIds[k], path))
    /\ [][\A id \in MergedIds :
             Deep(objects', Ref(id)) = Deep(objects, Ref(id))]_vars

\* the first target expects the header h1, defaults.target the header h2
\* and a status: the target gets both headers, its own timeout, the status
\* of defaults.target and the built-in response time
C24_Witness ==
    /\ pc = "merged"
    /\ Lookup(parsed, MergeTargetIds[1], <<"expect", "headers", "h1">>) # <<>>
    /\ Lookup(parsed, ConfigDefaultId, <<"expect", "headers", "h2">>) # <<>>
    /\ Lookup(parsed, MergeTargetIds[1], <<"expect", "status">>) = <<>>
    /\ Lookup(objects, MergeTargetIds[1], <<"expect", "headers", "h2">>)
          = <<Num(93)>>
    /\ Lookup(objects, MergeTargetIds[1], <<"expect", "headers", "h1">>)
          = <<Num(13)>>
    /\ Lookup(objects, MergeTargetIds[1], <<"expect", "status">>) = <<Num(92)>>
    /\ Lookup(objects, MergeTargetIds[1], <<"timeout">>) = <<Num(11)>>
    /\ Lookup(objects, MergeTargetIds[1], <<"expect", "responseTime">>)
          = <<Num(DefaultResponseTime)>>

\* both targets have no expect of their own and share the expect object of
\* defaults.target, completed with the built-in response time
C24_WitnessShared ==
    /\ pc = "merged"
    /\ objects[MergeTargetIds[1]]["expect"] = Ref("c.expect")
    /\ objects[MergeTargetIds[2]]["expect"] = Ref("c.expect")
    /\ "responseTime" \in DOMAIN objects["c.expect"]
    /\ "responseTime" \notin DOMAIN parsed["c.expect"]

\* the call got a response with the expected status before the timeout
ExpectedStatusReceived ==
    /\ PokeDone
    /\ PokeNet.kind = "response"
    /\ ~TimedOut(PokeTarget, PokeNet)
    /\ PokeNet.status = PokeTarget.expect.status

\* C25: for a response with the expected status the probe records a HEADER
\* failure if and only if some expected header is absent from the response
\* or is present with a value other than a non-empty expected value; an
\* expected value of "" is satisfied by any value of the header.
C25_HeaderCheck ==
    ExpectedStatusReceived =>
        (PokeResult.failure = "HEADER" <=>
            \E key \in DOMAIN PokeTarget.expect.headers :
                \/ key \notin DOMAIN PokeNet.headers
                \/ /\ PokeTarget.expect.headers[key] # ""
                   /\ PokeNet.headers[key] # PokeTarget.expect.headers[key])

\* the header is expected with any value and comes with the value v2: no
\* HEADER failure
C25_Witness ==
    /\ ExpectedStatusReceived
    /\ "h1" \in DOMAIN PokeTarget.expect.headers
    /\ PokeTarget.expect.headers["h1"] = ""
    /\ "h1" \in DOMAIN PokeNet.headers
    /\ PokeNet.headers["h1"] = "v2"
    /\ PokeResult.failure # "HEADER"

\* the header is expected with the value v1 and comes with the value v2: a
\* HEADER failure
C25_WitnessValue ==
    /\ ExpectedStatusReceived
    /\ "h1" \in DOMAIN PokeTarget.expect.headers
    /\ PokeTarget.expect.headers["h1"] = "v1"
    /\ "h1" \in DOMAIN PokeNet.headers
    /\ PokeNet.headers["h1"] = "v2"
    /\ PokeResult.failure = "HEADER"

\* the limit and the text of the call, and the body it recorded
BodyLimit == pokeIn[1]
BodyText == pokeIn[2]
BodyRecorded == pokeOut[1]

\* C26: the body recorded with a STATUS failure is the first truncateBody
\* characters of the text followed by the truncation marker when
\* truncateBody is set and the text is longer, and the whole text otherwise.
C26_BodyTruncation ==
    pokeIn # <<>> =>
        IF BodyLimit # <<>> /\ Len(BodyText) > BodyLimit[1]
        THEN BodyRecorded = SubSeq(BodyText, 1, BodyLimit[1]) \o Marker
        ELSE BodyRecorded = BodyText

\* the k-th probe of `name` ended in a failure that is not retried
NotRetried(name, k) ==
    \/ ProbeTransportError(name, k)
    \/ pokes[name][k].failure \in {"TIMEOUT", "STATUS", "HEADER"}

\* C27: within a run at most one notification is requested and at most one
\* POST is attempted for a target, whatever the outcome of the send and
\* whatever the probes returned, and a probe that ends in a transport error
\* or in a TIMEOUT, STATUS or HEADER failure is the last probe of its target.
C27_OnlyResponseTimeRetried ==
    \A name \in NameSet :
        /\ Len(PostsOf(name)) <= 1
        /\ Len(DingsOf(name)) <= 1
        /\ \A k \in 1..Len(pokes[name]) :
              NotRetried(name, k) => k = Len(pokes[name])

\* a retry probe fails on the status with a retry left and the send of the
\* notification times out: the run is over with two probes and one POST
C27_Witness ==
    /\ pc = "done"
    /\ RetriesOf(1) = 2
    /\ Len(PokesOf(1)) = 2
    /\ PokesOf(1)[1].failure = "RESPONSE_TIME"
    /\ PokesOf(1)[2].failure = "STATUS"
    /\ Len(PostsOf(Names[1])) = 1
    /\ PostsOf(Names[1])[1].outcome = "timeout"

\* every retry was too slow and the send failed: one POST, after the loop
C27_WitnessExhausted ==
    /\ pc = "done"
    /\ RetriesOf(1) = 2
    /\ Len(PokesOf(1)) = 3
    /\ AllResponseTime(PokesOf(1))
    /\ Len(PostsOf(Names[1])) = 1
    /\ PostsOf(Names[1])[1].outcome = "non2xx"

\* C28: a target that has been evaluated was probed at least once; no target
\* is probed more than 1 + responseTimeRetries times in a run; and a target
\* is probed more than once only if its first probe returned a RESPONSE_TIME
\* failure and responseTimeRetries > 0.
C28_ProbeCount ==
    \A k \in 1..Len(CONFIG.targets) :
        /\ Evaluated(k) => Len(PokesOf(k)) >= 1
        /\ Len(PokesOf(k)) <= 1 + RetriesOf(k)
        /\ Len(PokesOf(k)) > 1 =>
              /\ PokesOf(k)[1].failure = "RESPONSE_TIME"
              /\ RetriesOf(k) > 0

\* two retries: the first target probed three times, the second once
C28_Witness ==
    /\ pc = "done"
    /\ Len(CONFIG.targets) = 2
    /\ RetriesOf(1) = 2
    /\ Len(PokesOf(1)) = 3
    /\ Len(PokesOf(2)) = 1
    /\ PokesOf(2)[1].failure = "NONE"

\* no retries: a RESPONSE_TIME failure is probed once
C28_WitnessNoRetries ==
    /\ pc = "done"
    /\ RetriesOf(1) = 0
    /\ Len(PokesOf(1)) = 1
    /\ PokesOf(1)[1].failure = "RESPONSE_TIME"

\* C29: every Result passed to ding, and so to the notification gate and to
\* the notifier, carries a failure: no notification is requested or posted
\* for a Result without one, whether the probe succeeded or ended in a
\* transport error, inside the retry loop or after it.
C29_DingHasFailure ==
    /\ \A k \in 1..Len(dingCalls) : dingCalls[k].result.failure # "NONE"
    /\ \A k \in 1..Len(posts) : posts[k].result.failure # "NONE"

\* the retry loop is left on a Result without failure after one slow retry:
\* the check after the loop requests nothing
C29_Witness ==
    /\ pc = "flush"
    /\ ti = 1
    /\ RetriesOf(1) = 2
    /\ responseTimeFailures = 2
    /\ Len(PokesOf(1)) = 3
    /\ result = PokesOf(1)[3]
    /\ result.failure = "NONE"
    /\ dingCalls = <<>>

\* the retry loop is left on a transport error: nothing is requested
C29_WitnessTransportError ==
    /\ pc = "flush"
    /\ ti = 1
    /\ RetriesOf(1) = 1
    /\ Len(PokesOf(1)) = 2
    /\ ProbeTransportError(Names[1], 2)
    /\ dingCalls = <<>>

\* the check after the loop requests a notification for a RESPONSE_TIME
\* Result, which is posted
C29_WitnessExhausted ==
    /\ pc = "flush"
    /\ ti = 1
    /\ RetriesOf(1) = 1
    /\ responseTimeFailures = 2
    /\ Len(dingCalls) = 1
    /\ dingCalls[1].result.failure = "RESPONSE_TIME"
    /\ Len(posts) = 1

\* the position of `name` in the configured order
TargetIndex(name) == CHOOSE k \in 1..Len(Names) : Names[k] = name

Event(type, name, k) == [type |-> type, name |-> name, probe |-> k]

\* an event of the given type for the same probe comes before position j
Before(type, j) ==
    \E a \in 1..(j - 1) : events[a] = [events[j] EXCEPT !.type = type]

\* the notification requests among the events, in order
DingEventsLogged == SelectSeq(events, LAMBDA e : e.type = "ding")

\* C30: a notification is requested, and posted, about a probe only after
\* the request, the data row and the failure-log record of that probe, the
\* Result it is requested for being the Result of that probe; and whatever
\* is done for a target (probes, rows, records, requests, POSTs) is done
\* before the first probe of the next target in the configured order, the
\* state file being written last.
C30_Ordering ==
    /\ \A j \in 1..Len(events) :
          events[j].type \in {"ding", "post"} =>
              /\ Before("poke", j)
              /\ Before("data", j)
              /\ HasFailure(pokes[events[j].name][events[j].probe]) =>
                    Before("warn", j)
              /\ events[j].type = "post" => Before("ding", j)
    /\ Len(DingEventsLogged) = Len(dingCalls)
    /\ \A k \in 1..Len(dingCalls) :
          LET e == DingEventsLogged[k]
          IN  /\ e.name = dingCalls[k].name
              /\ pokes[e.name][e.probe] = dingCalls[k].result
    /\ \A j \in 1..(Len(events) - 1) :
          /\ events[j].type # "state"
          /\ events[j + 1].type # "state" =>
                TargetIndex(events[j].name) <= TargetIndex(events[j + 1].name)

\* the first target fails and a notification about it is posted, then the
\* second target is probed and the state file is written
C30_Witness ==
    /\ pc = "done"
    /\ Len(events) = 8
    /\ SubSeq(events, 1, 6) =
          <<Event("poke", Names[1], 1), Event("data", Names[1], 1),
            Event("warn", Names[1], 1), Event("ding", Names[1], 1),
            Event("post", Names[1], 1), Event("poke", Names[2], 1)>>
    /\ events[7] = Event("data", Names[2], 1)
    /\ events[8].type = "state"

\* the notification after the retry loop is about the last retry
C30_WitnessRetries ==
    /\ pc = "flush"
    /\ ti = 1
    /\ RetriesOf(1) = 2
    /\ Len(events) = 11
    /\ SubSeq(events, 7, 11) =
          <<Event("poke", Names[1], 3), Event("data", Names[1], 3),
            Event("warn", Names[1], 3), Event("ding", Names[1], 3),
            Event("post", Names[1], 3)>>

\* the step changes the entry of `name` in STATE.lastNotificationTime
EntryChanges(name) == lastNotificationTime'[name] # lastNotificationTime[name]

\* the step requests a notification for the current target and posts it
PostStep ==
    /\ Len(dingCalls') = Len(dingCalls) + 1
    /\ dingCalls'[Len(dingCalls')].name = Target.name
    /\ Len(posts') = Len(posts) + 1

\* the step writes the state file
WriteStateStep == pc = "cleanup" /\ pc' = "done"

\* the k-th request is the first of the run for its target
FirstRequest(k) ==
    \A j \in 1..(k - 1) : dingCalls[j].name # dingCalls[k].name

\* C31: an entry of lastNotificationTime changes only in a step that posts a
\* notification for the target of that name; the state file is written with
\* the loaded entry of every name no notification was posted for in the
\* run, a target or not; and the first request for a target meets the entry
\* the state file held for it, whatever was requested, sent or suppressed
\* for the targets before it.
C31_StateIsolation ==
    /\ [][\A name \in NameSet :
             EntryChanges(name) => name = Target.name /\ PostStep]_vars
    /\ [][WriteStateStep =>
             \A name \in NameSet :
                 PostsOf(name) = <<>> =>
                     stateFile'[name] = stateFile[name]]_vars
    /\ [](pc # "done" =>
             \A k \in 1..Len(dingCalls) :
                 FirstRequest(k) =>
                     dingCalls[k].stored = stateFile[dingCalls[k].name])

\* cooldown of 10 minutes: a notification for the first target is posted
\* and answered with 2xx, the request for the second target, notified 5
\* minutes before the run, is suppressed, and its entry is written back
C31_Witness ==
    /\ pc = "done"
    /\ Len(CONFIG.targets) = 2
    /\ CooldownMsOf(Names[1]) = 10 * 60 * 1000
    /\ Len(PostsOf(Names[1])) = 1
    /\ PostsOf(Names[1])[1].outcome = "ok"
    /\ Len(DingsOf(Names[2])) = 1
    /\ PostsOf(Names[2]) = <<>>
    /\ stateFile[Names[2]] = ToISOString(StartTime - 5 * 60 * 1000)

\* one target: the entry the state file holds for a name that is not a
\* target is written back after a notification for the target was posted
C31_WitnessOtherName ==
    /\ pc = "done"
    /\ Len(CONFIG.targets) = 1
    /\ Len(PostsOf(Names[1])) = 1
    /\ stateFile[Names[2]] = ToISOString(StartTime - 5 * 60 * 1000)

\* the writes of the state file among the events
StateWrites == SelectSeq(events, LAMBDA e : e.type = "state")

\* C32: every run of a valid configuration in which each request and each
\* notification attempt completes or is aborted by its timer finishes; when
\* it has finished every configured target has been probed and evaluated,
\* and the state file has been written exactly once, as the last thing done;
\* it is not written before.
C32_Termination ==
    /\ <>(pc = "done")
    /\ [](pc = "done" =>
             /\ \A k \in 1..Len(CONFIG.targets) :
                   Evaluated(k) /\ PokesOf(k) # <<>>
             /\ Len(StateWrites) = 1
             /\ events[Len(events)].type = "state")
    /\ [](pc # "done" => StateWrites = <<>>)

\* two targets with two retries: the first is never answered, every probe
\* of the second is too slow and the notification about it times out; the
\* run is over and the state file written
C32_Witness ==
    /\ pc = "done"
    /\ Len(CONFIG.targets) = 2
    /\ RetriesOf(2) = 2
    /\ PokesOf(1)[1].failure = "TIMEOUT"
    /\ Len(PokesOf(2)) = 3
    /\ AllResponseTime(PokesOf(2))
    /\ Len(PostsOf(Names[2])) = 1
    /\ PostsOf(Names[2])[1].outcome = "timeout"
    /\ Len(StateWrites) = 1

====
